---- MODULE Spec2Model ----
(***************************************************************************)
(* State-machine model of backend/server.py: the in-memory admin session   *)
(* table, the admin CRUD handlers over the projects and jobs collections,  *)
(* the upload handler, the seed-data route, and the enquiry submission     *)
(* flow with its background e-mail task.                                   *)
(*                                                                         *)
(* Handlers are coroutines on one event loop: a handler runs atomically    *)
(* from one await to the next.  login, logout and verify contain no await  *)
(* and are single actions; the handlers that await the store, the request  *)
(* body or the mail thread are split at their awaits and occupy a slot of  *)
(* req while they are suspended.                                           *)
(*                                                                         *)
(* Time is the POSIX timestamp of datetime.now(timezone.utc), in whole     *)
(* seconds.  A Python Optional value is a sequence of length 0 (None) or   *)
(* 1 (the value).  A stored document is a function from its keys to its    *)
(* values, as the dict the code inserts.                                   *)
(***************************************************************************)
EXTENDS Integers, Sequences, FiniteSets, TLC

VARIABLES
    now,              \* datetime.now(timezone.utc).timestamp()
    active_sessions,  \* server.py:51, token -> [username, created]
    issued,           \* history: tokens create_session has returned
    db,               \* db.projects, db.jobs, db.enquiries: documents in insertion order
    uploads,          \* file names present in UPLOAD_DIR
    req,              \* suspended handlers and background tasks, per slot
    budget,           \* number of HTTP requests the service will still receive
    last,             \* the most recent HTTP response sent, with its request
    escaped,          \* history: exceptions that left a background task
    log,              \* kinds of records this module's logger has emitted
    smtp_configured   \* ZOHO_EMAIL and ZOHO_PASSWORD are both non-empty

vars == <<now, active_sessions, issued, db, uploads, req, budget, last, escaped,
          log, smtp_configured>>

(***************************************************************************)
(* Bounds of the model.                                                    *)
(***************************************************************************)
MaxNow == 86400
SessionRequests == 4
AdminRequests == 2
EnquiryRequests == 2
FairRequests == 1
RaceRequests == 3
AllRequests == 2
NumSlots == 2

(***************************************************************************)
(* Program constants and input domains.                                    *)
(***************************************************************************)
SESSION_TTL == 86400
ADMIN_USERNAME == "admin"
ADMIN_PASSWORD == "advaithaa2024"

None == <<>>
Some(v) == <<v>>

\* secrets.token_urlsafe(32) returns some non-empty string; "" is the default
\* of upload_image's token parameter and is never generated.
IssuableTokens == {"tokA", "tokB"}
Tokens == IssuableTokens \cup {""}
Usernames == {ADMIN_USERNAME, "guest"}
Passwords == {ADMIN_PASSWORD, "wrong"}
\* The instants at which the clock is observed, around the expiry of a session
\* created at 0.
Instants == {SESSION_TTL - 1, SESSION_TTL, SESSION_TTL + 1}
Slots == 1..NumSlots

Idle == [pc |-> "idle"]
NoResponse == [op |-> "none", token |-> "", status |-> 0, body |-> "none"]
Response(op, token, status, body) ==
    [op |-> op, token |-> token, status |-> status, body |-> body]

\* A request is received: it is counted, and a handler that will suspend takes
\* the lowest free slot (slots are interchangeable coroutine frames).
Receive == budget > 0 /\ budget' = budget - 1
Free(r) == req[r] = Idle /\ \A q \in Slots : q < r => req[q] # Idle

(***************************************************************************)
(* Auth functions, server.py:131-145.                                      *)
(***************************************************************************)
\* Variant: a session is still accepted at exactly 24 hours.
verify_token_inclusive(token) ==
    /\ token \in DOMAIN active_sessions
    /\ now - active_sessions[token].created <= SESSION_TTL

\* Variant: the age of the session is not looked at.
verify_token_presence(token) == token \in DOMAIN active_sessions

\* Variant: a token without an entry is read with a default entry created now.
verify_token_default(token) ==
    LET created == IF token \in DOMAIN active_sessions
                   THEN active_sessions[token].created ELSE now
    IN now - created < SESSION_TTL

verify_token(token) ==
    /\ token \in DOMAIN active_sessions
    /\ now - active_sessions[token].created < SESSION_TTL

\* Variant: the table is rebound to a dict holding the new entry only.
create_session_reset(username, token) ==
    [t \in {token} |-> [username |-> username, created |-> now]]

create_session(username, token) ==
    [t \in DOMAIN active_sessions \cup {token} |->
        IF t = token THEN [username |-> username, created |-> now]
        ELSE active_sessions[t]]

(***************************************************************************)
(* Initial state: the process has just started.  The session table is      *)
(* empty and no request is in flight; the collections hold what earlier    *)
(* runs left in MongoDB; the SMTP credentials are process configuration.   *)
(***************************************************************************)
EmptyStore == [projects |-> << >>, jobs |-> << >>, enquiries |-> << >>]
UsedStore ==
    [projects |-> << [id |-> "0a1b2c3d", title |-> "Villa", is_featured |-> FALSE,
                      created_at |-> 0] >>,
     jobs |-> << [id |-> "0a1b2c3d", title |-> "Villa", is_active |-> TRUE,
                  created_at |-> 0] >>,
     enquiries |-> << >>]

Start(requests, stores, configured) ==
    /\ now = 0
    /\ active_sessions = << >>
    /\ issued = {}
    /\ db \in stores
    /\ uploads = {}
    /\ req = [r \in Slots |-> Idle]
    /\ budget = requests
    /\ last = NoResponse
    /\ escaped = {}
    /\ log = {}
    /\ smtp_configured \in configured

Init == Start(AllRequests, {EmptyStore, UsedStore}, BOOLEAN)

\* The clock advances between handler steps.
Tick(t) ==
    /\ now < t
    /\ t <= MaxNow
    /\ now' = t
    /\ UNCHANGED <<active_sessions, issued, db, uploads, req, budget, last, escaped,
                   log, smtp_configured>>

(***************************************************************************)
(* Admin auth routes, server.py:252-269.  None of them awaits.             *)
(***************************************************************************)
\* Variant: the password is not compared.
admin_login_any_password(username, password, token) ==
    /\ Receive
    /\ IF username = ADMIN_USERNAME
       THEN /\ active_sessions' = create_session(username, token)
            /\ issued' = issued \cup {token}
            /\ last' = Response("admin_login", "", 200, token)
       ELSE /\ last' = Response("admin_login", "", 401, "Invalid credentials")
            /\ UNCHANGED <<active_sessions, issued>>
    /\ UNCHANGED <<now, db, uploads, req, escaped, log, smtp_configured>>

admin_login(username, password, token) ==
    /\ Receive
    /\ IF username = ADMIN_USERNAME /\ password = ADMIN_PASSWORD
       THEN /\ active_sessions' = create_session(username, token)
            /\ issued' = issued \cup {token}
            /\ last' = Response("admin_login", "", 200, token)
       ELSE /\ last' = Response("admin_login", "", 401, "Invalid credentials")
            /\ UNCHANGED <<active_sessions, issued>>
    /\ UNCHANGED <<now, db, uploads, req, escaped, log, smtp_configured>>

\* Variant: logout answers without removing the entry.
admin_logout_keep(token) ==
    /\ Receive
    /\ last' = Response("admin_logout", token, 200, "Logged out")
    /\ UNCHANGED <<now, active_sessions, issued, db, uploads, req, escaped, log,
                   smtp_configured>>

\* Variant: logout empties the whole table.
admin_logout_clear(token) ==
    /\ Receive
    /\ active_sessions' = << >>
    /\ last' = Response("admin_logout", token, 200, "Logged out")
    /\ UNCHANGED <<now, issued, db, uploads, req, escaped, log, smtp_configured>>

admin_logout(token) ==
    /\ Receive
    /\ active_sessions' =
           IF token \in DOMAIN active_sessions
           THEN [t \in DOMAIN active_sessions \ {token} |-> active_sessions[t]]
           ELSE active_sessions
    /\ last' = Response("admin_logout", token, 200, "Logged out")
    /\ UNCHANGED <<now, issued, db, uploads, req, escaped, log, smtp_configured>>

\* Variant: a lookup that finds an expired entry deletes it.
verify_session_evict(token) ==
    /\ Receive
    /\ last' = IF verify_token(token)
               THEN Response("verify_session", token, 200, "valid")
               ELSE Response("verify_session", token, 401,
                             "Invalid or expired session")
    /\ active_sessions' =
           IF token \in DOMAIN active_sessions /\ ~verify_token(token)
           THEN [t \in DOMAIN active_sessions \ {token} |-> active_sessions[t]]
           ELSE active_sessions
    /\ UNCHANGED <<now, issued, db, uploads, req, escaped, log, smtp_configured>>

verify_session(token) ==
    /\ Receive
    /\ last' = IF verify_token(token)
               THEN Response("verify_session", token, 200, "valid")
               ELSE Response("verify_session", token, 401,
                             "Invalid or expired session")
    /\ UNCHANGED <<now, active_sessions, issued, db, uploads, req, escaped, log,
                   smtp_configured>>

(***************************************************************************)
(* Request models, server.py:68-114.  Of the descriptive fields one string *)
(* field (title) and the boolean field of each model are kept; the others  *)
(* pass through model_dump and $set in the same way.                       *)
(***************************************************************************)
Colls == {"projects", "jobs"}
Titles == {"Villa"}
NewTitles == {""}
Fields(coll) == IF coll = "projects" THEN {"title", "is_featured"}
                ELSE {"title", "is_active"}
FlagOf(coll) == IF coll = "projects" THEN "is_featured" ELSE "is_active"
Default(coll) == IF coll = "projects" THEN FALSE ELSE TRUE

\* uuid4()[:8] is eight hexadecimal characters; the seed identifiers are not.
NewIds == {"0a1b2c3d"}
RequestIds == NewIds \cup {"ffffffff"}

\* A JSON body for ProjectCreate / JobCreate: title given, the flag given when
\* K holds its key.  A JSON body for ProjectUpdate / JobUpdate: the keys in K,
\* each null (None) or set (Some).
OptTitles == {None} \cup {Some(t) : t \in NewTitles}
OptFlags == {None} \cup {Some(b) : b \in BOOLEAN}
CreateBody(coll, K, t, b) ==
    [k \in K \cup {"title"} |-> IF k = "title" THEN t ELSE b]
UpdateBody(K, ot, ob) == [k \in K |-> IF k = "title" THEN ot ELSE ob]
\* Each body is enumerated once: a key that is left out takes no value.
Once(K, flag, ot, ob) ==
    /\ "title" \in K \/ ot = None
    /\ flag \in K \/ ob = None

\* ProjectCreate(...).model_dump(): defaults fill the omitted keys.
create_dump(coll, body) ==
    [k \in Fields(coll) |->
        IF k \in DOMAIN body THEN body[k] ELSE Default(coll)]

\* Keys of a JSON body that ProjectUpdate / JobUpdate do not declare.
ExtraKeys == {{}, {"id", "created_at"}}
Extra(X) == [k \in X |-> Some("ffffffff")]
\* The undeclared keys are sent along with one body, {"title": ...}.
WithExtra(K, ot, X) == X = {} \/ (K = {"title"} /\ ot # None)

\* Variant: the model is configured with extra="allow" and dumps undeclared keys.
update_dump_allow_extra(coll, body) ==
    [k \in Fields(coll) \cup DOMAIN body |->
        IF k \in DOMAIN body THEN body[k] ELSE None]

\* ProjectUpdate(...).model_dump(): every declared field, None where omitted
\* or null; pydantic ignores the undeclared keys of the body.
update_dump(coll, body) ==
    [k \in Fields(coll) |-> IF k \in DOMAIN body THEN body[k] ELSE None]

\* Variant: the null fields are not dropped.
update_data_keep_null(dump) == [k \in DOMAIN dump |-> dump[k]]

\* {k: v for k, v in model_dump().items() if v is not None}

update_data(dump) ==
    [k \in {k \in DOMAIN dump : dump[k] # None} |-> dump[k][1]]

(***************************************************************************)
(* The collection operations the handlers await (pymongo semantics): the   *)
(* filter {"id": x} selects the first document in insertion order.         *)
(***************************************************************************)
Matching(docs, id) == {i \in 1..Len(docs) : docs[i].id = id}
FirstMatch(docs, id) ==
    CHOOSE i \in Matching(docs, id) : \A j \in Matching(docs, id) : i <= j

\* Variant: the document is replaced by the supplied fields (replace_one).
SetFields_replace(doc, set) == [id |-> doc.id] @@ set

\* {"$set": update_data}
SetFields(doc, set) ==
    [k \in DOMAIN doc \cup DOMAIN set |-> IF k \in DOMAIN set THEN set[k] ELSE doc[k]]

\* Variant: update_one called with upsert=True.
update_one_upsert(docs, id, set) ==
    IF Matching(docs, id) = {} THEN Append(docs, [id |-> id] @@ set)
    ELSE [docs EXCEPT ![FirstMatch(docs, id)] = SetFields(@, set)]

update_one(docs, id, set) ==
    IF Matching(docs, id) = {} THEN docs
    ELSE [docs EXCEPT ![FirstMatch(docs, id)] = SetFields(@, set)]

delete_one(docs, id) ==
    IF Matching(docs, id) = {} THEN docs
    ELSE LET i == FirstMatch(docs, id) IN
         SubSeq(docs, 1, i - 1) \o SubSeq(docs, i + 1, Len(docs))

Suspended(r, pcs) == req[r].pc \in pcs

OpName(verb, coll) == verb \o (IF coll = "projects" THEN "_project" ELSE "_job")

Unauthorized(op, token) == Response(op, token, 401, "Unauthorized")

(***************************************************************************)
(* Admin CRUD handlers, server.py:337-380 and 401-444, up to their await.  *)
(***************************************************************************)
create_item(coll, r, token, id, body) ==
    /\ Receive
    /\ Free(r)
    /\ IF ~verify_token(token)
       THEN /\ last' = Unauthorized(OpName("create", coll), token)
            /\ UNCHANGED req
       ELSE /\ req' = [req EXCEPT ![r] =
                  [pc |-> "insert_one", op |-> OpName("create", coll), coll |-> coll,
                   token |-> token, authorized |-> TRUE,
                   doc |-> [id |-> id, created_at |-> now] @@ create_dump(coll, body)]]
            /\ UNCHANGED last
    /\ UNCHANGED <<now, active_sessions, issued, db, uploads, escaped, log,
                   smtp_configured>>

update_item(coll, r, token, id, body) ==
    /\ Receive
    /\ Free(r)
    /\ LET op == OpName("update", coll)
           data == update_data(update_dump(coll, body))
       IN IF ~verify_token(token)
          THEN /\ last' = Unauthorized(op, token)
               /\ UNCHANGED req
          ELSE IF DOMAIN data = {}
          THEN /\ last' = Response(op, token, 400, "No fields to update")
               /\ UNCHANGED req
          ELSE /\ req' = [req EXCEPT ![r] =
                     [pc |-> "update_one", op |-> op, coll |-> coll, token |-> token,
                      authorized |-> TRUE, id |-> id,
                      set |-> [updated_at |-> now] @@ data]]
               /\ UNCHANGED last
    /\ UNCHANGED <<now, active_sessions, issued, db, uploads, escaped, log,
                   smtp_configured>>

delete_item(coll, r, token, id) ==
    /\ Receive
    /\ Free(r)
    /\ LET op == OpName("delete", coll)
       IN IF ~verify_token(token)
          THEN /\ last' = Unauthorized(op, token)
               /\ UNCHANGED req
          ELSE /\ req' = [req EXCEPT ![r] =
                     [pc |-> "delete_one", op |-> op, coll |-> coll, token |-> token,
                      authorized |-> TRUE, id |-> id]]
               /\ UNCHANGED last
    /\ UNCHANGED <<now, active_sessions, issued, db, uploads, escaped, log,
                   smtp_configured>>

create_project(r, token, id, body) == create_item("projects", r, token, id, body)
update_project(r, token, id, body) == update_item("projects", r, token, id, body)
delete_project(r, token, id) == delete_item("projects", r, token, id)
create_job(r, token, id, body) == create_item("jobs", r, token, id, body)
update_job(r, token, id, body) == update_item("jobs", r, token, id, body)
delete_job(r, token, id) == delete_item("jobs", r, token, id)

(***************************************************************************)
(* The awaited store operation completes and the handler returns.  A store *)
(* error (ok = FALSE) leaves the handler as an unhandled exception: 500.   *)
(***************************************************************************)
Finish(r, status, body) ==
    /\ last' = Response(req[r].op, req[r].token, status, body)
    /\ req' = [req EXCEPT ![r] = Idle]

resume_create(r, ok) ==
    /\ Suspended(r, {"insert_one"})
    /\ req[r].op \in {"create_project", "create_job"}
    /\ IF ok
       THEN /\ db' = [db EXCEPT ![req[r].coll] = Append(@, req[r].doc)]
            /\ Finish(r, 200, req[r].doc.id)
       ELSE /\ UNCHANGED db
            /\ Finish(r, 500, "Internal Server Error")
    /\ UNCHANGED <<now, active_sessions, issued, uploads, budget, escaped, log,
                   smtp_configured>>

resume_update(r, ok) ==
    /\ Suspended(r, {"update_one"})
    /\ IF ~ok
       THEN /\ UNCHANGED db
            /\ Finish(r, 500, "Internal Server Error")
       ELSE /\ db' = [db EXCEPT ![req[r].coll] = update_one(@, req[r].id, req[r].set)]
            /\ IF Matching(db[req[r].coll], req[r].id) = {}
               THEN Finish(r, 404, "not found")
               ELSE Finish(r, 200, "updated")
    /\ UNCHANGED <<now, active_sessions, issued, uploads, budget, escaped, log,
                   smtp_configured>>

resume_delete(r, ok) ==
    /\ Suspended(r, {"delete_one"})
    /\ IF ~ok
       THEN /\ UNCHANGED db
            /\ Finish(r, 500, "Internal Server Error")
       ELSE /\ db' = [db EXCEPT ![req[r].coll] = delete_one(@, req[r].id)]
            /\ IF Matching(db[req[r].coll], req[r].id) = {}
               THEN Finish(r, 404, "not found")
               ELSE Finish(r, 200, "deleted")
    /\ UNCHANGED <<now, active_sessions, issued, uploads, budget, escaped, log,
                   smtp_configured>>

(***************************************************************************)
(* Seed data, server.py:487-550.  The route takes no token.  It awaits the *)
(* count, then insert_many on projects, then insert_many on jobs.          *)
(***************************************************************************)
SeedProjects ==
    << [id |-> "alkapuri", title |-> "Advaithaa Alkapuri Residences",
        is_featured |-> TRUE, created_at |-> now],
       [id |-> "narsampalle", title |-> "Narsampalle Premium Plots",
        is_featured |-> TRUE, created_at |-> now] >>

SeedJobs ==
    << [id |-> "eng001", title |-> "Project Engineer",
        is_active |-> TRUE, created_at |-> now],
       [id |-> "sales001", title |-> "Sales Executive",
        is_active |-> TRUE, created_at |-> now] >>

seed_data(r) ==
    /\ Receive
    /\ Free(r)
    /\ IF Len(db.projects) > 0
       THEN /\ last' = Response("seed_data", "", 200, "Data already seeded")
            /\ UNCHANGED req
       ELSE /\ req' = [req EXCEPT ![r] =
                  [pc |-> "insert_many_projects", op |-> "seed_data", token |-> "",
                   authorized |-> FALSE, projects |-> SeedProjects, jobs |-> SeedJobs]]
            /\ UNCHANGED last
    /\ UNCHANGED <<now, active_sessions, issued, db, uploads, escaped, log,
                   smtp_configured>>

resume_seed(r, ok) ==
    /\ Suspended(r, {"insert_many_projects", "insert_many_jobs"})
    /\ IF ~ok
       THEN /\ UNCHANGED db
            /\ Finish(r, 500, "Internal Server Error")
       ELSE IF req[r].pc = "insert_many_projects"
       THEN /\ db' = [db EXCEPT !.projects = @ \o req[r].projects]
            /\ req' = [req EXCEPT ![r].pc = "insert_many_jobs"]
            /\ UNCHANGED last
       ELSE /\ db' = [db EXCEPT !.jobs = @ \o req[r].jobs]
            /\ Finish(r, 200, "Data seeded successfully")
    /\ UNCHANGED <<now, active_sessions, issued, uploads, budget, escaped, log,
                   smtp_configured>>

(***************************************************************************)
(* Image upload, server.py:449-472.  A content type is <<major, minor>>, a *)
(* file name is the sequence of its dot-separated parts.                   *)
(***************************************************************************)
ContentTypes == {<<"image", "png">>, <<"video", "mp4">>, <<"text", "plain">>}
FileNames == {<<"photo">>, <<"photo", "png">>}
FileIds == {"9f8e7d6c5b4a"}

file_extension(filename) ==
    IF Len(filename) > 1 THEN filename[Len(filename)] ELSE "jpg"

upload_image(r, token, content_type, filename, file_id) ==
    /\ Receive
    /\ Free(r)
    /\ IF ~verify_token(token)
       THEN /\ last' = Unauthorized("upload_image", token)
            /\ UNCHANGED req
       ELSE IF content_type[1] \notin {"image", "video"}
       THEN /\ last' = Response("upload_image", token, 400,
                                "File must be an image or video")
            /\ UNCHANGED req
       ELSE /\ req' = [req EXCEPT ![r] =
                  [pc |-> "file_read", op |-> "upload_image", token |-> token,
                   authorized |-> TRUE,
                   filename |-> <<file_id, file_extension(filename)>>,
                   media_type |-> IF content_type[1] = "video" THEN "video"
                                  ELSE "image"]]
            /\ UNCHANGED last
    /\ UNCHANGED <<now, active_sessions, issued, db, uploads, escaped, log,
                   smtp_configured>>

resume_upload(r) ==
    /\ Suspended(r, {"file_read"})
    /\ uploads' = uploads \cup {req[r].filename}
    /\ Finish(r, 200, req[r].media_type)
    /\ UNCHANGED <<now, active_sessions, issued, db, budget, escaped, log,
                   smtp_configured>>

(***************************************************************************)
(* Enquiry submission, server.py:274-314, and the e-mail task it hands to  *)
(* BackgroundTasks, server.py:150-175.  Only bodies that pass the          *)
(* EnquiryRequest schema reach the handler.                                *)
(***************************************************************************)
RECIPIENT_EMAIL == "info@advaithainfra.com"
EnquiryIds == {"1a2b3c4d"}
FormTypes == {"project", "brochure"}
OptFormTypes == {None} \cup {Some(f) : f \in FormTypes}
MsgSubmitted == "Enquiry submitted successfully. We will contact you soon!"
MsgFallback == "Enquiry submitted. We will contact you soon!"

\* EnquiryRequest: form_type: Optional[str] = "general"
EnquiryRequest(K, oft) ==
    [name |-> "Asha", phone |-> "9999999999",
     form_type |-> IF "form_type" \in K THEN oft ELSE Some("general")]

form_type_label(form_type) ==
    IF form_type = Some("general") THEN "General Enquiry"
    ELSE IF form_type = Some("project") THEN "Project Enquiry"
    ELSE IF form_type = Some("investment") THEN "Investment/JV Enquiry"
    ELSE "Website Enquiry"

submit_enquiry(r, enquiry, id) ==
    /\ Receive
    /\ Free(r)
    /\ req' = [req EXCEPT ![r] =
          [pc |-> "insert_one", op |-> "submit_enquiry", token |-> "",
           authorized |-> FALSE, enquiry |-> enquiry,
           doc |-> [id |-> id, name |-> enquiry.name, phone |-> enquiry.phone,
                    form_type |-> enquiry.form_type, status |-> "new",
                    created_at |-> now]]]
    /\ UNCHANGED <<now, active_sessions, issued, db, uploads, last, escaped, log,
                   smtp_configured>>

\* Variant: the record is written only when the mail service is configured.
resume_enquiry_coupled(r, ok) ==
    /\ Suspended(r, {"insert_one"})
    /\ req[r].op = "submit_enquiry"
    /\ db' = IF ok /\ smtp_configured
             THEN [db EXCEPT !.enquiries = Append(@, req[r].doc)] ELSE db
    /\ last' = Response("submit_enquiry", "", 200, MsgSubmitted)
    /\ req' = [req EXCEPT ![r] = Idle]
    /\ UNCHANGED <<now, active_sessions, issued, uploads, budget, escaped, log,
                   smtp_configured>>

\* Variant: the handler awaits the delivery instead of handing it to
\* BackgroundTasks; no response is written when the insert has returned.
resume_enquiry_blocking(r, ok) ==
    /\ Suspended(r, {"insert_one"})
    /\ req[r].op = "submit_enquiry"
    /\ IF ok
       THEN /\ db' = [db EXCEPT !.enquiries = Append(@, req[r].doc)]
            /\ req' = [req EXCEPT ![r] =
                  [pc |-> "background", op |-> "send_email_async",
                   to_email |-> RECIPIENT_EMAIL, enquiry_id |-> req[r].doc.id,
                   subject |-> <<"New", form_type_label(req[r].enquiry.form_type),
                                 "from", req[r].enquiry.name>>]]
            /\ UNCHANGED <<log, last>>
       ELSE /\ log' = log \cup {"Error submitting enquiry"}
            /\ last' = Response("submit_enquiry", "", 200, MsgFallback)
            /\ req' = [req EXCEPT ![r] = Idle]
            /\ UNCHANGED db
    /\ UNCHANGED <<now, active_sessions, issued, uploads, budget, escaped,
                   smtp_configured>>

\* Variant: the task is added in a finally clause, also when the insert raised.
resume_enquiry_always_notifies(r, ok) ==
    /\ Suspended(r, {"insert_one"})
    /\ req[r].op = "submit_enquiry"
    /\ IF ok
       THEN /\ db' = [db EXCEPT !.enquiries = Append(@, req[r].doc)]
            /\ last' = Response("submit_enquiry", "", 200, MsgSubmitted)
            /\ UNCHANGED log
       ELSE /\ log' = log \cup {"Error submitting enquiry"}
            /\ last' = Response("submit_enquiry", "", 200, MsgFallback)
            /\ UNCHANGED db
    /\ req' = [req EXCEPT ![r] =
          [pc |-> "background", op |-> "send_email_async",
           to_email |-> RECIPIENT_EMAIL, enquiry_id |-> req[r].doc.id,
           subject |-> <<"New", form_type_label(req[r].enquiry.form_type),
                         "from", req[r].enquiry.name>>]]
    /\ UNCHANGED <<now, active_sessions, issued, uploads, budget, escaped,
                   smtp_configured>>

\* The insert returns or raises.  Both the normal path and the except branch
\* return {"success": True, ...} with status 200.
resume_enquiry(r, ok) ==
    /\ Suspended(r, {"insert_one"})
    /\ req[r].op = "submit_enquiry"
    /\ IF ok
       THEN /\ db' = [db EXCEPT !.enquiries = Append(@, req[r].doc)]
            /\ last' = Response("submit_enquiry", "", 200, MsgSubmitted)
            /\ req' = [req EXCEPT ![r] =
                  [pc |-> "background", op |-> "send_email_async",
                   to_email |-> RECIPIENT_EMAIL, enquiry_id |-> req[r].doc.id,
                   subject |-> <<"New", form_type_label(req[r].enquiry.form_type),
                                 "from", req[r].enquiry.name>>]]
            /\ UNCHANGED log
       ELSE /\ log' = log \cup {"Error submitting enquiry"}
            /\ last' = Response("submit_enquiry", "", 200, MsgFallback)
            /\ req' = [req EXCEPT ![r] = Idle]
            /\ UNCHANGED db
    /\ UNCHANGED <<now, active_sessions, issued, uploads, budget, escaped,
                   smtp_configured>>

\* The response has been sent; the task runs send_email_sync in a thread.  An
\* exception raised there passes through asyncio.to_thread and send_email_async,
\* neither of which has a handler, and leaves the task.
run_task(r) ==
    /\ Suspended(r, {"background"})
    /\ IF ~smtp_configured
       THEN /\ log' = log \cup {"Zoho SMTP credentials not configured"}
            /\ escaped' = escaped \cup {"Email service not configured"}
            /\ req' = [req EXCEPT ![r] = Idle]
       ELSE /\ req' = [req EXCEPT ![r].pc = "smtp"]
            /\ UNCHANGED <<log, escaped>>
    /\ UNCHANGED <<now, active_sessions, issued, db, uploads, budget, last,
                   smtp_configured>>

\* Variant: a failed delivery puts the task back to be run again.
send_email_sync_retry(r, delivered) ==
    /\ Suspended(r, {"smtp"})
    /\ IF delivered
       THEN /\ log' = log \cup {"Email sent successfully"}
            /\ req' = [req EXCEPT ![r] = Idle]
            /\ UNCHANGED escaped
       ELSE /\ req' = [req EXCEPT ![r].pc = "background"]
            /\ UNCHANGED <<log, escaped>>
    /\ UNCHANGED <<now, active_sessions, issued, db, uploads, budget, last,
                   smtp_configured>>

\* Variant: a completed delivery is recorded on the enquiry.
send_email_sync_writes_back(r, delivered) ==
    /\ Suspended(r, {"smtp"})
    /\ IF delivered
       THEN /\ log' = log \cup {"Email sent successfully"}
            /\ db' = [db EXCEPT !.enquiries =
                         update_one(@, req[r].enquiry_id, [status |-> "notified"])]
            /\ UNCHANGED escaped
       ELSE /\ escaped' = escaped \cup {"SMTPException"}
            /\ UNCHANGED <<log, db>>
    /\ req' = [req EXCEPT ![r] = Idle]
    /\ UNCHANGED <<now, active_sessions, issued, uploads, budget, last,
                   smtp_configured>>

\* SMTP_SSL / login / sendmail / quit either all return or one of them raises.
send_email_sync(r, delivered) ==
    /\ Suspended(r, {"smtp"})
    /\ IF delivered
       THEN /\ log' = log \cup {"Email sent successfully"}
            /\ UNCHANGED escaped
       ELSE /\ escaped' = escaped \cup {"SMTPException"}
            /\ UNCHANGED log
    /\ req' = [req EXCEPT ![r] = Idle]
    /\ UNCHANGED <<now, active_sessions, issued, db, uploads, budget, last,
                   smtp_configured>>

(***************************************************************************)
(* Specifications.  Spec runs every route; the others run the routes of    *)
(* one part of the service with a larger request budget.                   *)
(***************************************************************************)
ClockStep == \E t \in Instants : Tick(t)

\* The guards of the handlers are repeated in front of the input quantifiers.
Ready(r) == budget > 0 /\ Free(r)

\* secrets.token_urlsafe(32) draws 256 random bits: a value it returned before
\* is not returned again.
FreshTokens == IssuableTokens \ issued

SessionStep ==
    \/ budget > 0 /\ \E u \in Usernames, p \in Passwords, t \in FreshTokens :
          admin_login(u, p, t)
    \/ budget > 0 /\ \E t \in Tokens : admin_logout(t)
    \/ budget > 0 /\ \E t \in Tokens : verify_session(t)

AdminStep ==
    \/ \E r \in Slots : Ready(r) /\ \E t \in Tokens, id \in NewIds :
          \E K \in SUBSET {"is_featured"}, title \in Titles, b \in BOOLEAN :
             (K # {} \/ b) /\ create_project(r, t, id, CreateBody("projects", K, title, b))
    \/ \E r \in Slots : Ready(r) /\ \E t \in Tokens, id \in RequestIds :
          \E K \in SUBSET Fields("projects"), ot \in OptTitles, ob \in OptFlags, X \in ExtraKeys :
             Once(K, "is_featured", ot, ob) /\ WithExtra(K, ot, X)
             /\ update_project(r, t, id, UpdateBody(K, ot, ob) @@ Extra(X))
    \/ \E r \in Slots : Ready(r) /\ \E t \in Tokens, id \in RequestIds :
          delete_project(r, t, id)
    \/ \E r \in Slots : Ready(r) /\ \E t \in Tokens, id \in NewIds :
          \E K \in SUBSET {"is_active"}, title \in Titles, b \in BOOLEAN :
             (K # {} \/ b) /\ create_job(r, t, id, CreateBody("jobs", K, title, b))
    \/ \E r \in Slots : Ready(r) /\ \E t \in Tokens, id \in RequestIds :
          \E K \in SUBSET Fields("jobs"), ot \in OptTitles, ob \in OptFlags, X \in ExtraKeys :
             Once(K, "is_active", ot, ob) /\ WithExtra(K, ot, X)
             /\ update_job(r, t, id, UpdateBody(K, ot, ob) @@ Extra(X))
    \/ \E r \in Slots : Ready(r) /\ \E t \in Tokens, id \in RequestIds :
          delete_job(r, t, id)
    \/ \E r \in Slots : Suspended(r, {"insert_one"}) /\ \E ok \in BOOLEAN : resume_create(r, ok)
    \/ \E r \in Slots : Suspended(r, {"update_one"}) /\ \E ok \in BOOLEAN : resume_update(r, ok)
    \/ \E r \in Slots : Suspended(r, {"delete_one"}) /\ \E ok \in BOOLEAN : resume_delete(r, ok)
    \/ \E r \in Slots : Ready(r) /\
          \E t \in Tokens, ct \in ContentTypes, f \in FileNames, id \in FileIds :
             upload_image(r, t, ct, f, id)
    \/ \E r \in Slots : resume_upload(r)
    \/ \E r \in Slots : Ready(r) /\ seed_data(r)
    \/ \E r \in Slots, ok \in BOOLEAN : resume_seed(r, ok)

EnquiryStep ==
    \/ \E r \in Slots : Ready(r) /\
          \E K \in SUBSET {"form_type"}, oft \in OptFormTypes, id \in EnquiryIds :
             ("form_type" \in K \/ oft = None) /\ submit_enquiry(r, EnquiryRequest(K, oft), id)
    \/ \E r \in Slots, ok \in BOOLEAN : resume_enquiry(r, ok)
    \/ \E r \in Slots : run_task(r)
    \/ \E r \in Slots, delivered \in BOOLEAN : send_email_sync(r, delivered)

Next == ClockStep \/ SessionStep \/ AdminStep \/ EnquiryStep
Spec == Init /\ [][Next]_vars

\* Every route, started on an empty store with the mail service configured.
InitService == Start(AllRequests, {EmptyStore}, {TRUE})
SpecService == InitService /\ [][Next]_vars

InitSession == Start(SessionRequests, {EmptyStore}, {FALSE})
NextSession == ClockStep \/ SessionStep
SpecSession == InitSession /\ [][NextSession]_vars

InitAdmin == Start(AdminRequests, {EmptyStore, UsedStore}, {FALSE})
NextAdmin == ClockStep \/ SessionStep \/ AdminStep
SpecAdmin == InitAdmin /\ [][NextAdmin]_vars

\* The session and admin routes on a used store, with room for a login, an
\* admin request and a logout.
InitRace == Start(RaceRequests, {UsedStore}, {FALSE})
SpecRace == InitRace /\ [][NextAdmin]_vars

InitEnquiry == Start(EnquiryRequests, {EmptyStore}, BOOLEAN)
NextEnquiry == ClockStep \/ EnquiryStep
SpecEnquiry == InitEnquiry /\ [][NextEnquiry]_vars

\* The event loop resumes a handler whose awaited insert_one has returned or
\* raised.  Nothing is assumed of the mail task: the SMTP calls have no timeout.
InitEnquiryFair == Start(FairRequests, {EmptyStore}, BOOLEAN)
SpecEnquiryFair ==
    /\ InitEnquiryFair
    /\ [][NextEnquiry]_vars
    /\ \A r \in Slots : WF_vars(\E ok \in BOOLEAN : resume_enquiry(r, ok))

(***************************************************************************)
(* Properties.                                                             *)
(***************************************************************************)
Day == 24 * 60 * 60

\* The session rule of the specification: present and younger than 24 hours.
SessionValid(token) ==
    /\ token \in DOMAIN active_sessions
    /\ now - active_sessions[token].created < Day

TaskPcs == {"background", "smtp"}

\* C1: when the store write of an enquiry fails, the caller receives a server
\* error, never a success response, and no notification task is scheduled.
C1_PersistenceFailureIsServerError ==
    [][\A r \in Slots :
          resume_enquiry(r, FALSE) =>
              /\ last'.op = "submit_enquiry"
              /\ last'.status >= 500
              /\ req'[r] = Idle]_vars

\* C2: a well-formed submission whose store write succeeds is answered with
\* success and adds exactly one record with status "new" and a timestamp; no
\* step of the mail task, whatever its outcome, touches the collection or the
\* response.
C2_PersistedEnquiryAnswersSuccess ==
    [][\A r \in Slots :
          /\ resume_enquiry(r, TRUE) =>
                /\ last'.op = "submit_enquiry"
                /\ last'.status = 200
                /\ last'.body = MsgSubmitted
                /\ Len(db'.enquiries) = Len(db.enquiries) + 1
                /\ SubSeq(db'.enquiries, 1, Len(db.enquiries)) = db.enquiries
                /\ db'.enquiries[Len(db'.enquiries)].status = "new"
                /\ db'.enquiries[Len(db'.enquiries)].created_at \in 0..now
          /\ (req[r].pc \in TaskPcs /\ req'[r] # req[r]) =>
                /\ db' = db
                /\ last' = last]_vars

C2_Witness ==
    /\ last.op = "submit_enquiry"
    /\ last.body = MsgSubmitted
    /\ Len(db.enquiries) = 1
    /\ db.enquiries[1].status = "new"
    /\ escaped # {}
    /\ \A r \in Slots : req[r] = Idle

\* C3: a failure raised by the delivery step is caught inside the background
\* task: no exception leaves send_email_async.
C3_DeliveryErrorContained == escaped = {}

AdminOps == {"create_project", "update_project", "delete_project",
             "create_job", "update_job", "delete_job", "upload_image"}
AwaitPcs == {"insert_one", "update_one", "delete_one", "file_read"}

\* C4: an admin handler called with a token that does not validate answers
\* 401 and leaves the store and the upload directory as they were; a handler
\* reaches its awaited store or file operation only after its token validated.
C4_InvalidTokenRejectedBeforeStore ==
    [][budget' < budget =>
          /\ \A r \in Slots :
                (req'[r] # req[r] /\ req'[r].pc \in AwaitPcs /\ req'[r].op \in AdminOps)
                   => SessionValid(req'[r].token)
          /\ (req' = req /\ last'.op \in AdminOps /\ ~SessionValid(last'.token)) =>
                /\ last'.status = 401
                /\ db' = db
                /\ uploads' = uploads]_vars

\* An expired session, still in the table, was presented to an admin handler
\* while the collection held a record.
C4_Witness ==
    /\ last.op \in AdminOps
    /\ last.status = 401
    /\ last.token \in DOMAIN active_sessions
    /\ ~SessionValid(last.token)
    /\ Len(db.projects) > 0

\* C5: the projects and jobs collections change only by a request whose token
\* validated when the handler checked it.
C5_WritesNeedValidToken ==
    [][\A coll \in Colls :
          db'[coll] # db[coll] =>
              \E r \in Slots : /\ req'[r] # req[r]
                               /\ req[r].pc # "idle"
                               /\ req[r].authorized]_vars

\* C6: a check answers valid exactly when the token is in the table and less
\* than 24 hours have passed since it was issued, and answers 200 or 401.
C6_ValidIffPresentAndYoung ==
    [][\A t \in Tokens :
          verify_session(t) =>
              /\ last'.status \in {200, 401}
              /\ last'.status = 200 <=>
                    (t \in DOMAIN active_sessions
                     /\ now - active_sessions[t].created < Day)]_vars

\* A session was checked at exactly 24 hours after issuance and refused.
C6_Witness ==
    /\ last.op = "verify_session"
    /\ last.status = 401
    /\ last.token \in DOMAIN active_sessions
    /\ now - active_sessions[last.token].created = Day

\* C7: the table holds only tokens create_session returned, and a token that
\* was never returned does not validate.
C7_OnlyIssuedTokensValidate ==
    /\ DOMAIN active_sessions \subseteq issued
    /\ \A t \in Tokens : t \notin issued => ~verify_token(t)

\* A token that was never issued was refused while another session existed.
C7_Witness ==
    /\ last.status = 401
    /\ last.op \in AdminOps \cup {"verify_session"}
    /\ last.token \notin issued
    /\ last.token # ""
    /\ DOMAIN active_sessions # {}

\* C8: a token validates right after it is issued; after logout with it the
\* token does not validate; a token that is not in the table does not validate
\* after any step other than a login that returns it.
C8_IssueThenRevoke ==
    [][\A t \in Tokens :
          /\ (\E u \in Usernames, p \in Passwords :
                 admin_login(u, p, t) /\ last'.status = 200) => verify_token(t)'
          /\ admin_logout(t) => ~verify_token(t)'
          /\ (t \notin DOMAIN active_sessions
              /\ ~\E u \in Usernames, p \in Passwords : admin_login(u, p, t))
                => ~verify_token(t)']_vars

\* A token was issued, revoked, and then refused by a check.
C8_Witness ==
    /\ last.op = "verify_session"
    /\ last.status = 401
    /\ last.token \in issued
    /\ last.token \notin DOMAIN active_sessions

\* C9: logout answers success for any token, changes no entry of another
\* token, and changes nothing when the token has no entry.
C9_LogoutIdempotentAndLocal ==
    [][\A t \in Tokens :
          admin_logout(t) =>
              /\ last'.status = 200
              /\ t \notin DOMAIN active_sessions'
              /\ DOMAIN active_sessions' = DOMAIN active_sessions \ {t}
              /\ \A u \in DOMAIN active_sessions' :
                    active_sessions'[u] = active_sessions[u]
              /\ t \notin DOMAIN active_sessions =>
                    active_sessions' = active_sessions]_vars

\* Logout was called with a token that has no entry while a session existed.
C9_Witness ==
    /\ last.op = "admin_logout"
    /\ last.status = 200
    /\ last.token \notin issued
    /\ DOMAIN active_sessions # {}

\* C10: an authorized update whose body has every field omitted or null is
\* answered 400 and leaves the store unchanged; nothing is handed to the store.
C10_EmptyUpdateRejected ==
    [][budget' < budget =>
          \A t \in Tokens, r \in Slots : (SessionValid(t) /\ Free(r)) =>
             \A coll \in Colls, id \in RequestIds : \A K \in SUBSET Fields(coll) :
                update_item(coll, r, t, id, UpdateBody(K, None, None))
                   => /\ last' = Response(OpName("update", coll), t, 400,
                                          "No fields to update")
                      /\ db' = db
                      /\ req' = req]_vars

\* An update without effective fields was refused while the record existed.
C10_Witness ==
    /\ last.op = "update_job"
    /\ last.status = 400
    /\ SessionValid(last.token)
    /\ Len(db.jobs) > 0
    /\ "updated_at" \notin DOMAIN db.jobs[1]

Supplied(body) == {k \in DOMAIN body : body[k] # None}

\* C11: an authorized update of an existing project or job is a partial merge.
\* When a handler starts to wait for update_one, it has handed to the store
\* exactly the non-null fields of the request body that started it, with
\* their supplied values, plus the updated_at stamp; the store operation gives
\* the addressed record those values and leaves its other fields, every other
\* record and the other collections as they were.
C11_UpdateIsPartialMerge ==
    [][/\ \A t \in Tokens, r \in Slots :
             (SessionValid(t) /\ Free(r) /\ req'[r].pc = "update_one") =>
                \A coll \in Colls, id \in RequestIds :
                   \A K \in SUBSET Fields(coll), ot \in OptTitles, ob \in OptFlags :
                      LET body == UpdateBody(K, ot, ob) IN
                      (Once(K, FlagOf(coll), ot, ob) /\ Supplied(body) # {}
                       /\ update_item(coll, r, t, id, body)) =>
                          /\ req'[r].id = id
                          /\ DOMAIN req'[r].set = Supplied(body) \cup {"updated_at"}
                          /\ \A k \in Supplied(body) : req'[r].set[k] = body[k][1]
                          /\ req'[r].set.updated_at = now
                          /\ db' = db
       /\ \A r \in Slots :
             (req[r].pc = "update_one" /\ req'[r] = Idle /\ last'.status = 200) =>
                LET coll == req[r].coll
                    set == req[r].set
                    i == FirstMatch(db[coll], req[r].id)
                IN /\ Matching(db[coll], req[r].id) # {}
                   /\ Len(db'[coll]) = Len(db[coll])
                   /\ \A j \in 1..Len(db[coll]) : j # i => db'[coll][j] = db[coll][j]
                   /\ DOMAIN db'[coll][i] = DOMAIN db[coll][i] \cup DOMAIN set
                   /\ \A k \in DOMAIN set : db'[coll][i][k] = set[k]
                   /\ \A k \in DOMAIN db[coll][i] \ DOMAIN set :
                         db'[coll][i][k] = db[coll][i][k]
                   /\ \A c \in DOMAIN db \ {coll} : db'[c] = db[c]]_vars

\* A job was updated with {is_active: false} only.
C11_Witness ==
    /\ last.op = "update_job"
    /\ last.status = 200
    /\ Len(db.jobs) = 1
    /\ DOMAIN db.jobs[1] = DOMAIN UsedStore.jobs[1] \cup {"updated_at"}
    /\ db.jobs[1].is_active = FALSE
    /\ db.jobs[1].title = "Villa"
    /\ db.jobs[1].created_at = 0
    /\ db.projects = UsedStore.projects

\* C12: an authorized update or delete whose id matches no record of the
\* collection is answered 404 and leaves the store as it was: the delete
\* removes nothing and the update creates no record.
C12_MissingIdIsNotFound ==
    [][\A r \in Slots :
          ((resume_update(r, TRUE) \/ resume_delete(r, TRUE))
           /\ Matching(db[req[r].coll], req[r].id) = {}) =>
              /\ req[r].authorized
              /\ last'.op = req[r].op
              /\ last'.status = 404
              /\ db' = db]_vars

\* An update addressed an id that no record of the used store carries.
C12_Witness ==
    /\ last.op = "update_project"
    /\ last.status = 404
    /\ SessionValid(last.token)
    /\ db = UsedStore

\* C13: in every order in which concurrent login, logout and check requests
\* run, no session entry is lost or corrupted.  An entry stays in the table
\* with the same content across every step except the logout of its own
\* token; a successful login returns a token distinct from every token in
\* the table, which validates at once, and every session that validated
\* before the login still validates after it.
C13_NoSessionLostOrCorrupted ==
    [][/\ \A u \in DOMAIN active_sessions :
             \/ u \in DOMAIN active_sessions' /\ active_sessions'[u] = active_sessions[u]
             \/ admin_logout(u)
       /\ \A t \in Tokens :
             (\E u \in Usernames, p \in Passwords :
                 admin_login(u, p, t) /\ last'.status = 200) =>
                 /\ t \notin DOMAIN active_sessions
                 /\ verify_token(t)'
                 /\ \A u \in Tokens : verify_token(u) => verify_token(u)']_vars

\* Two logins were answered and both tokens validate.
C13_Witness ==
    /\ last.op = "admin_login"
    /\ last.status = 200
    /\ DOMAIN active_sessions = IssuableTokens
    /\ \A t \in IssuableTokens : verify_token(t)

\* C14: the enquiry request is answered without waiting for the notification.
\* A request that waits for its insert is eventually answered, whatever the
\* mail task does; when the insert has returned the handler writes the
\* success response in the same step in which it schedules the task, before
\* any step of the delivery, and no step of the task changes the response.
C14_RespondsWithoutWaiting ==
    /\ \A r \in Slots :
          (req[r].pc = "insert_one" /\ req[r].op = "submit_enquiry")
             ~> (req[r].pc # "insert_one" /\ last.op = "submit_enquiry"
                 /\ last.status = 200)
    /\ [][\A r \in Slots :
             /\ resume_enquiry(r, TRUE) =>
                   /\ last' = Response("submit_enquiry", "", 200, MsgSubmitted)
                   /\ req'[r].pc = "background"
                   /\ escaped' = escaped
                   /\ log' = log
             /\ (run_task(r) \/ \E d \in BOOLEAN : send_email_sync(r, d)) =>
                   last' = last]_vars

\* The response was sent while the delivery attempt is still in progress.
C14_Witness ==
    /\ last = Response("submit_enquiry", "", 200, MsgSubmitted)
    /\ \E r \in Slots : req[r].pc = "smtp"
    /\ log = {}
    /\ escaped = {}

\* C15: a notification task is scheduled, and a delivery attempt started,
\* only for an enquiry whose record is already written.  A slot becomes a
\* mail task only in the step in which its handler's insert has returned and
\* the record is in the collection; the SMTP step starts only from a
\* scheduled task; every task carries the id of a stored record.
C15_NotifyOnlyAfterPersist ==
    /\ [](\A r \in Slots :
             req[r].pc \in TaskPcs =>
                \E i \in 1..Len(db.enquiries) : db.enquiries[i].id = req[r].enquiry_id)
    /\ [][\A r \in Slots :
             /\ (req[r].pc \notin TaskPcs /\ req'[r].pc \in TaskPcs) =>
                   /\ req[r].pc = "insert_one"
                   /\ req[r].op = "submit_enquiry"
                   /\ db'.enquiries = Append(db.enquiries, req[r].doc)
                   /\ req'[r].pc = "background"
                   /\ req'[r].enquiry_id = req[r].doc.id
             /\ (req[r].pc # "smtp" /\ req'[r].pc = "smtp") =>
                   req[r].pc = "background"
             /\ (escaped' # escaped \/ "Email sent successfully" \in log' \ log) =>
                   \E q \in Slots : req[q].pc \in TaskPcs /\ req'[q] = Idle]_vars

\* One submission was not persisted and has no task; another was persisted
\* and its delivery attempt has started.
C15_Witness ==
    /\ "Error submitting enquiry" \in log
    /\ Len(db.enquiries) = 1
    /\ Cardinality({r \in Slots : req[r].pc = "smtp"}) = 1
    /\ \A r \in Slots : req[r].pc \in {"idle", "smtp"}
    /\ budget = 0

\* C16: for every persisted enquiry at most one delivery attempt is made, to
\* the fixed recipient.  Each step creates as many mail tasks as it appends
\* enquiry records, so no task is scheduled for a record that exists; a task
\* moves from scheduled to at most one SMTP attempt and then ends, whatever
\* the outcome of the attempt; every task is addressed to RECIPIENT_EMAIL.
C16_SingleDeliveryAttempt ==
    [][/\ Cardinality({r \in Slots : req[r].pc \notin TaskPcs /\ req'[r].pc \in TaskPcs})
             = Len(db'.enquiries) - Len(db.enquiries)
       /\ \A r \in Slots :
             /\ (req[r].pc = "background" /\ req'[r] # req[r]) =>
                   req'[r] \in {Idle, [req[r] EXCEPT !.pc = "smtp"]}
             /\ (req[r].pc = "smtp" /\ req'[r] # req[r]) => req'[r] = Idle
             /\ req'[r].pc \in TaskPcs => req'[r].to_email = "info@advaithainfra.com"]_vars

\* The single delivery attempt of the only enquiry failed and nothing is
\* scheduled.
C16_Witness ==
    /\ "SMTPException" \in escaped
    /\ "Email sent successfully" \notin log
    /\ Len(db.enquiries) = 1
    /\ \A r \in Slots : req[r] = Idle

\* C17: every persisted enquiry has form_type general, project or investment
\* (general when the field was not supplied); no other value, and no null, is
\* stored.
C17_FormTypeEnumerated ==
    \A i \in 1..Len(db.enquiries) :
       db.enquiries[i].form_type \in {Some("general"), Some("project"), Some("investment")}

\* C18: a login with the configured username and password adds exactly one
\* new entry to the session table, for the token it returns, and changes no
\* other entry; a login with any other credentials is answered 401 and
\* leaves the table as it was.
C18_LoginAddsOneSessionOr401 ==
    [][\A u \in Usernames, p \in Passwords, t \in Tokens :
          admin_login(u, p, t) =>
             IF u = "admin" /\ p = "advaithaa2024"
             THEN /\ last'.status = 200
                  /\ last'.body = t
                  /\ t \notin DOMAIN active_sessions
                  /\ DOMAIN active_sessions' = DOMAIN active_sessions \cup {t}
                  /\ Cardinality(DOMAIN active_sessions')
                        = Cardinality(DOMAIN active_sessions) + 1
                  /\ active_sessions'[t] = [username |-> u, created |-> now]
                  /\ \A v \in DOMAIN active_sessions :
                        active_sessions'[v] = active_sessions[v]
             ELSE /\ last'.status = 401
                  /\ active_sessions' = active_sessions
                  /\ issued' = issued]_vars

\* A login with wrong credentials was refused while a session existed.
C18_Witness ==
    /\ last.op = "admin_login"
    /\ last.status = 401
    /\ Cardinality(DOMAIN active_sessions) = 1
    /\ issued = DOMAIN active_sessions

\* C19: the session table changes only by a successful login, which adds one
\* entry, and by a logout, which removes one.  An entry that stays in the
\* table keeps its username and issuance time; a session check, an admin
\* content handler, the completion of a store operation and the passing of
\* time leave the table unchanged, expired entries included.
C19_SessionTableFrame ==
    [][/\ active_sessions' # active_sessions =>
             \/ \E t \in Tokens \ DOMAIN active_sessions :
                   /\ last' = Response("admin_login", "", 200, t)
                   /\ DOMAIN active_sessions' = DOMAIN active_sessions \cup {t}
                   /\ budget' < budget
             \/ \E t \in DOMAIN active_sessions :
                   /\ admin_logout(t)
                   /\ DOMAIN active_sessions' = DOMAIN active_sessions \ {t}
       /\ \A t \in DOMAIN active_sessions \cap DOMAIN active_sessions' :
             active_sessions'[t] = active_sessions[t]
       /\ (budget' = budget \/ req' # req
           \/ last'.op \notin {"admin_login", "admin_logout"}) =>
             active_sessions' = active_sessions]_vars

\* A session was checked some time after it was issued and a day-old session
\* is still in the table: no entry was refreshed or evicted.
C19_Witness ==
    /\ last.op = "verify_session"
    /\ last.status = 200
    /\ active_sessions[last.token].created < now
    /\ \E t \in DOMAIN active_sessions : ~verify_token(t)

\* C20: an enquiry record is immutable after creation.  Across every step of
\* every route the records already in the enquiries collection stay where
\* they are with the same field values; the collection changes only when a
\* submission's insert returns; every record has status "new".
C20_EnquiriesImmutable ==
    /\ [](\A i \in 1..Len(db.enquiries) : db.enquiries[i].status = "new")
    /\ [][/\ Len(db'.enquiries) >= Len(db.enquiries)
           /\ SubSeq(db'.enquiries, 1, Len(db.enquiries)) = db.enquiries
           /\ db'.enquiries # db.enquiries =>
                 \E r \in Slots : req[r].pc = "insert_one" /\ req[r].op = "submit_enquiry"
                                  /\ req'[r] # req[r]]_vars

\* An enquiry was stored and its mail delivered; afterwards the seed route
\* filled the other collections.
C20_Witness ==
    /\ last.op = "seed_data"
    /\ Len(db.projects) > 0
    /\ Len(db.enquiries) = 1
    /\ db.enquiries[1].status = "new"
    /\ "Email sent successfully" \in log

WritePcs == {"insert_one", "update_one", "delete_one"}

\* C21: at the step in which the insert, update or delete of an admin handler
\* is applied to the store, the token of that request is a valid session:
\* in the table and younger than 24 hours.
C21_TokenValidWhenWriteApplied ==
    [][\A r \in Slots :
          (req[r].pc \in WritePcs /\ req[r].op \in AdminOps
           /\ req'[r] = Idle /\ db' # db) => SessionValid(req[r].token)]_vars

\* C22: no update changes a record's id or created_at, and a record stays
\* addressable by its id until it is deleted.  The fields a handler hands to
\* update_one never include id or created_at, whatever keys the request body
\* carried; across every step other than a completed delete the records of
\* projects and jobs keep their position, id and created_at, so each id
\* matches the same records as before.
C22_UpdateKeepsIdAndCreatedAt ==
    [][/\ \A r \in Slots :
             req'[r].pc = "update_one" =>
                DOMAIN req'[r].set \cap {"id", "created_at"} = {}
       /\ \A coll \in Colls :
             (\A r \in Slots : ~resume_delete(r, TRUE)) =>
                /\ Len(db'[coll]) >= Len(db[coll])
                /\ \A i \in 1..Len(db[coll]) :
                      /\ db'[coll][i].id = db[coll][i].id
                      /\ db'[coll][i].created_at = db[coll][i].created_at
                /\ \A id \in RequestIds :
                      Matching(db[coll], id) \subseteq Matching(db'[coll], id)]_vars

\* A project was updated a day after its creation and still carries the id
\* and created_at it was created with.
C22_Witness ==
    /\ last.op = "update_project"
    /\ last.status = 200
    /\ Len(db.projects) = 1
    /\ db.projects[1].id = "0a1b2c3d"
    /\ db.projects[1].created_at = 0
    /\ "updated_at" \in DOMAIN db.projects[1]
    /\ db.projects[1].updated_at > 0

====
